---- MODULE Spec2Model ----
(***************************************************************************)
(* SafeSpeak AI (src/SafeSpeak_AI.py): a Streamlit script with three tabs  *)
(* (text, image, voice).  Each tab forwards the user's content to the      *)
(* oracle client.models.generate_content, decodes the response text with   *)
(* json.loads and shows it with render_risk_box.  The voice tab keeps      *)
(* last_audio_size / last_audio_result in st.session_state.                *)
(*                                                                         *)
(* Three specifications live in this module:                               *)
(*   SpecFn    applies one of call_gemini_for_text / _image / _audio,      *)
(*             render_risk_box or the text tab's body to an input and an   *)
(*             oracle answer drawn from bounded sets;                      *)
(*   Spec      runs the script top to bottom, one rerun per user action,   *)
(*             in one browser session;                                     *)
(*   SpecConc  runs it in two sessions, interleaved tab by tab and across  *)
(*             the voice tab's oracle call.                                *)
(*                                                                         *)
(* result_src, failed_clip, own_state and calls are history variables: the *)
(* script does not hold them, the properties read them.                    *)
(***************************************************************************)
EXTENDS Integers, Sequences, FiniteSets, TLC

\* ------------------------------------------------------------------------
\* Bounds
\* ------------------------------------------------------------------------
\* longest user text, in characters
MaxTextLen == 2
\* longest byte string (image or audio), in bytes
MaxBytesLen == 2
\* scores are enumerated, in half points, within ScoreWindow half points of
\* each end of the progress range (and at 150 and 87.5)
ScoreWindow == 3

\* ------------------------------------------------------------------------
\* Constants of the program
\* ------------------------------------------------------------------------
\* st.progress(min(max(risk_score, 0), 100))
PROGRESS_MIN == 0
PROGRESS_MAX == 100

\* RISK_SCHEMA["properties"]["risk_level"]["enum"]
RISK_LEVELS == {"low", "medium", "high", "critical"}

\* ------------------------------------------------------------------------
\* Values
\* ------------------------------------------------------------------------
\* characters of a user text: whitespace and anything else
Chars == {" ", "a"}
Bytes01 == {0, 1}

SeqsUpTo(S, n) == UNION {[1..k -> S] : k \in 0..n}

Texts == SeqsUpTo(Chars, MaxTextLen)
ByteStrings == SeqsUpTo(Bytes01, MaxBytesLen)

\* an optional bytes argument: None, or a byte string (possibly b"")
NoneBytes == [k |-> "None", b |-> <<>>]
SomeBytes(b) == [k |-> "bytes", b |-> b]
OptBytes == {NoneBytes} \cup {SomeBytes(b) : b \in ByteStrings}

\* a number is held in half points: h = 2 * value
Num(h) == [k |-> "num", h |-> h]
AbsentNum == [k |-> "absent", h |-> 0]
NullNum == [k |-> "null", h |-> 0]

ScoreHalves ==
    ((2 * PROGRESS_MIN - ScoreWindow) .. (2 * PROGRESS_MIN + ScoreWindow))
    \cup ((2 * PROGRESS_MAX - ScoreWindow) .. (2 * PROGRESS_MAX + ScoreWindow))
    \cup {300, 175}

ScoreFields == {AbsentNum, NullNum} \cup {Num(h) : h \in ScoreHalves}

\* the risk_level field: a key that is missing, a JSON null, a string, or a
\* value that is not a string (a number)
AbsentStr == "<absent>"
NullStr == "<null>"
NonString == "<number>"
LevelStrings == RISK_LEVELS \cup {"HIGH", "severe", ""}
LevelFields == {AbsentStr, NullStr, NonString} \cup LevelStrings

\* a list-of-strings field
AbsentList == [k |-> "absent", v |-> <<>>]
NullList == [k |-> "null", v |-> <<>>]
List(v) == [k |-> "list", v |-> v]
ListFields(item) == {AbsentList, NullList, List(<<>>), List(<<item>>)}

\* what json.loads hands back: None, a list, or a dict with the five keys of
\* RISK_SCHEMA each present, null or missing
NoFields ==
    [risk_score |-> AbsentNum, risk_level |-> AbsentStr,
     categories |-> AbsentList, explanations |-> AbsentList,
     suggested_rewrites |-> AbsentList]

PyNone == [kind |-> "None", len |-> 0, f |-> NoFields]
PyList(n) == [kind |-> "list", len |-> n, f |-> NoFields]
PyDict(f) == [kind |-> "dict", len |-> 0, f |-> f]

DictFields ==
    [risk_score : ScoreFields, risk_level : LevelFields,
     categories : ListFields("religion"),
     explanations : ListFields("harsh tone"),
     suggested_rewrites : ListFields("kinder words")]

PyValues == {PyNone, PyList(0), PyList(1)} \cup {PyDict(f) : f \in DictFields}

\* Python truthiness of a decoded value: None, [] and {} are falsy
Truthy(v) ==
    CASE v.kind = "None" -> FALSE
      [] v.kind = "list" -> v.len > 0
      [] OTHER -> v.f # NoFields

\* ------------------------------------------------------------------------
\* The oracle: client.models.generate_content
\* ------------------------------------------------------------------------
\* one outcome of a call: it raises, or it returns a response whose .text is
\* None, is not JSON, or is a JSON document
OracleError == [kind |-> "error", doc |-> PyNone]
NoText == [kind |-> "no_text", doc |-> PyNone]
NotJson == [kind |-> "not_json", doc |-> PyNone]
JsonText(doc) == [kind |-> "json", doc |-> doc]

Responses == {OracleError, NoText, NotJson} \cup {JsonText(d) : d \in PyValues}

\* outcome of a function: what it returned or that it raised, and how many
\* times it called the oracle
Return(v, n) == [tag |-> "return", value |-> v, calls |-> n]
Raise(n) == [tag |-> "raise", value |-> PyNone, calls |-> n]

\* a decoder that swallows the decoding error and hands back None
json_loads_lenient(resp, n) ==
    IF resp.kind = "json" THEN Return(resp.doc, n) ELSE Return(PyNone, n)

\* json.loads(response.text)
json_loads(resp, n) ==
    IF resp.kind = "json" THEN Return(resp.doc, n) ELSE Raise(n)

\* response = client.models.generate_content(...); return json.loads(response.text)
generate_and_load(resp) ==
    IF resp.kind = "error" THEN Raise(1) ELSE json_loads(resp, 1)

\* ------------------------------------------------------------------------
\* The three assessment functions
\* ------------------------------------------------------------------------
IsSpace(c) == c = " "

RECURSIVE lstrip(_)
lstrip(t) ==
    IF t = <<>> THEN t
    ELSE IF IsSpace(Head(t)) THEN lstrip(Tail(t)) ELSE t

RECURSIVE rstrip(_)
rstrip(t) ==
    IF t = <<>> THEN t
    ELSE IF IsSpace(t[Len(t)]) THEN rstrip(SubSeq(t, 1, Len(t) - 1)) ELSE t

\* str.strip()
strip(t) == rstrip(lstrip(t))

\* the guard without the strip: "if not text"
TextIsEmptyNoStrip(text) == text = <<>>

\* if not text or not text.strip(): return None
TextIsEmpty(text) == text = <<>> \/ strip(text) = <<>>

\* if not image_bytes / if not audio_bytes: None and b"" are falsy
BytesIsEmpty(ob) == ob.k = "None" \/ ob.b = <<>>

call_gemini_for_text(text, resp) ==
    IF TextIsEmpty(text) THEN Return(PyNone, 0) ELSE generate_and_load(resp)

call_gemini_for_image(image_bytes, resp) ==
    IF BytesIsEmpty(image_bytes) THEN Return(PyNone, 0) ELSE generate_and_load(resp)

call_gemini_for_audio(audio_bytes, resp) ==
    IF BytesIsEmpty(audio_bytes) THEN Return(PyNone, 0) ELSE generate_and_load(resp)

\* ------------------------------------------------------------------------
\* render_risk_box
\* ------------------------------------------------------------------------
\* int(round(x)) of a number held in half points: round half to even
RoundHalfEven(h) ==
    IF h % 2 = 0 THEN h \div 2
    ELSE LET lo == (h - 1) \div 2 IN IF lo % 2 = 0 THEN lo ELSE lo + 1

\* the clamp without its upper end: max(risk_score, 0)
ClampLowerOnly(n) == IF n > PROGRESS_MIN THEN n ELSE PROGRESS_MIN

\* min(max(risk_score, 0), 100)
Clamp(n) ==
    LET up == IF n > PROGRESS_MIN THEN n ELSE PROGRESS_MIN
    IN  IF up < PROGRESS_MAX THEN up ELSE PROGRESS_MAX

\* str.lower() on the level strings
Lower(s) == IF s = "HIGH" THEN "high" ELSE s

\* (data.get("risk_level") or "low").lower()
LevelOf(f) ==
    IF f.risk_level \in {AbsentStr, NullStr, ""} THEN "low" ELSE Lower(f.risk_level)

\* level_display = {...}.get(risk_level, risk_level)
LevelDisplay(level) ==
    CASE level = "low" -> "Low"
      [] level = "medium" -> "Medium"
      [] level = "high" -> "High"
      [] level = "critical" -> "Critical"
      [] OTHER -> level

\* data.get(key) or []
OrEmpty(lf) == IF lf.k = "list" THEN lf.v ELSE <<>>

\* what one call of render_risk_box put on the page.  status: "warning" (the
\* 'No analysis result available.' placeholder), "raised" (an exception left
\* the function before anything was drawn: .get on a list, round(None),
\* .lower() on a number) or "rendered".  data_after is the
\* argument as the function leaves it.
NoBox(status, data) ==
    [status |-> status, metric |-> 0, progress |-> 0, level |-> "",
     categories |-> <<>>, explanations |-> <<>>, rewrites |-> <<>>,
     data_after |-> data]

NothingDrawn == NoBox("none", PyNone)

\* render_risk_box reading the optional keys with data["categories"] and
\* data["explanations"]: a missing key raises KeyError
render_risk_box_subscript(data) ==
    IF ~Truthy(data) THEN NoBox("warning", data)
    ELSE IF data.kind # "dict" THEN NoBox("raised", data)
    ELSE IF data.f.risk_score.k = "null" THEN NoBox("raised", data)
    ELSE IF data.f.risk_level = NonString THEN NoBox("raised", data)
    ELSE IF data.f.categories.k = "absent" \/ data.f.explanations.k = "absent"
      THEN NoBox("raised", data)
    ELSE
        LET risk_score ==
                IF data.f.risk_score.k = "absent" THEN 0
                ELSE RoundHalfEven(data.f.risk_score.h)
        IN  [status |-> "rendered",
             metric |-> risk_score,
             progress |-> Clamp(risk_score),
             level |-> LevelDisplay(LevelOf(data.f)),
             categories |-> OrEmpty(data.f.categories),
             explanations |-> OrEmpty(data.f.explanations),
             rewrites |-> OrEmpty(data.f.suggested_rewrites),
             data_after |-> data]

render_risk_box(data) ==
    IF ~Truthy(data) THEN NoBox("warning", data)
    ELSE IF data.kind # "dict" THEN NoBox("raised", data)
    ELSE IF data.f.risk_score.k = "null" THEN NoBox("raised", data)
    ELSE IF data.f.risk_level = NonString THEN NoBox("raised", data)
    ELSE
        LET risk_score ==
                IF data.f.risk_score.k = "absent" THEN 0
                ELSE RoundHalfEven(data.f.risk_score.h)
        IN  [status |-> "rendered",
             metric |-> risk_score,
             progress |-> Clamp(risk_score),
             level |-> LevelDisplay(LevelOf(data.f)),
             categories |-> OrEmpty(data.f.categories),
             explanations |-> OrEmpty(data.f.explanations),
             rewrites |-> OrEmpty(data.f.suggested_rewrites),
             data_after |-> data]

\* ------------------------------------------------------------------------
\* Spec: the script, rerun from top to bottom after every user action
\* ------------------------------------------------------------------------
\* inputs of the widgets
SessionTexts == {<<>>, <<" ">>, <<"a">>}
Uploads == {NoneBytes, SomeBytes(<<1>>)}
Clips == {SomeBytes(<<0>>), SomeBytes(<<1>>), SomeBytes(<<0, 0>>)}
AudioInputs == {NoneBytes} \cup Clips

\* answers of the oracle
InRange ==
    PyDict([risk_score |-> Num(175), risk_level |-> "medium",
            categories |-> List(<<"religion">>), explanations |-> AbsentList,
            suggested_rewrites |-> List(<<"kinder words">>)])
OutOfRange ==
    PyDict([risk_score |-> Num(300), risk_level |-> "severe",
            categories |-> AbsentList, explanations |-> NullList,
            suggested_rewrites |-> List(<<>>)])
NullScore ==
    PyDict([risk_score |-> NullNum, risk_level |-> "high",
            categories |-> AbsentList, explanations |-> AbsentList,
            suggested_rewrites |-> List(<<>>)])

SessionResponses ==
    {OracleError, NotJson, JsonText(PyNone), JsonText(PyDict(NoFields)),
     JsonText(InRange), JsonText(OutOfRange), JsonText(NullScore)}

\* st.session_state: a key is missing until the script first assigns it
AbsentSize == [k |-> "absent", n |-> 0]
NoneSize == [k |-> "None", n |-> 0]
IntSize(n) == [k |-> "int", n |-> n]
AbsentResult == [k |-> "absent", v |-> PyNone]
SetResult(v) == [k |-> "set", v |-> v]

EmptySessionState == [last_audio_size |-> AbsentSize, last_audio_result |-> AbsentResult]

\* what a tab put on the page in the current run
TabOut(kind, box) == [kind |-> kind, box |-> box]
NoOut == TabOut("none", NothingDrawn)
AudioOut(error, kind, box) == [error |-> error, kind |-> kind, box |-> box]
NoAudioOut == AudioOut(FALSE, "none", NothingDrawn)

NoCalls == [text |-> 0, image |-> 0, audio |-> 0]

\* the functions applied on their own (SpecFn)
VARIABLES
    fn,         \* the function applied last ("none" before the first)
    fn_text,    \* its text argument
    fn_bytes,   \* its bytes argument
    fn_resp,    \* what the oracle answers if it is called
    fn_data,    \* the argument of render_risk_box
    fn_out,     \* outcome of the assessment function
    fn_box,     \* what render_risk_box drew
    fn_btn,     \* the 'Analyse text' button, for the text tab
    fn_tab      \* what the text tab drew, and its oracle calls

fn_vars == <<fn, fn_text, fn_bytes, fn_resp, fn_data, fn_out, fn_box, fn_btn, fn_tab>>

FnInit ==
    /\ fn = "none"
    /\ fn_text = <<>>
    /\ fn_bytes = NoneBytes
    /\ fn_resp = OracleError
    /\ fn_data = PyNone
    /\ fn_out = Return(PyNone, 0)
    /\ fn_box = NothingDrawn
    /\ fn_btn = FALSE
    /\ fn_tab = [out |-> NoOut, calls |-> 0]

VARIABLES
    pc,             \* per session: where the script run is
    trigger,        \* per session: the user action that started the run
    user_text,      \* per session: st.text_area
    uploaded_file,  \* per session: st.file_uploader
    audio_value,    \* per session: st.audio_input
    session_state,  \* st.session_state, by session key
    text_out,       \* per session: output of the text tab in this run
    image_out,      \* per session: output of the image tab in this run
    audio_out,      \* per session: output of the voice tab in this run
    calls,          \* per session: oracle calls made in this run
    result_src,     \* per session: the clip whose answer last_audio_result holds
    failed_clip,    \* per session: the clip whose analysis failed, until the
                    \*   user records again
    own_state       \* per session: what the session's own runs last wrote
                    \*   to its session state

ui_vars ==
    <<pc, trigger, user_text, uploaded_file, audio_value, session_state,
      text_out, image_out, audio_out, calls, result_src, failed_clip, own_state>>

vars == <<fn_vars, ui_vars>>

Sessions == DOMAIN pc

\* one st.session_state shared by every session
SessionKeyShared(s) == "s1"

\* st.session_state is looked up by the session the script runs for
SessionKey(s) == s

InitSessions(S) ==
    /\ pc = [s \in S |-> "idle"]
    /\ trigger = [s \in S |-> "none"]
    /\ user_text = [s \in S |-> <<>>]
    /\ uploaded_file = [s \in S |-> NoneBytes]
    /\ audio_value = [s \in S |-> NoneBytes]
    /\ session_state = [s \in S |-> EmptySessionState]
    /\ text_out = [s \in S |-> NoOut]
    /\ image_out = [s \in S |-> NoOut]
    /\ audio_out = [s \in S |-> NoAudioOut]
    /\ calls = [s \in S |-> NoCalls]
    /\ result_src = [s \in S |-> NoneBytes]
    /\ failed_clip = [s \in S |-> NoneBytes]
    /\ own_state = [s \in S |-> EmptySessionState]

\* a user action: the widget takes its new value and the script reruns
StartRun(s, what) ==
    /\ pc[s] = "idle"
    /\ pc' = [pc EXCEPT ![s] = "tab_text"]
    /\ trigger' = [trigger EXCEPT ![s] = what]
    /\ text_out' = [text_out EXCEPT ![s] = NoOut]
    /\ image_out' = [image_out EXCEPT ![s] = NoOut]
    /\ audio_out' = [audio_out EXCEPT ![s] = NoAudioOut]
    /\ calls' = [calls EXCEPT ![s] = NoCalls]
    /\ UNCHANGED <<session_state, result_src, own_state, fn_vars>>

EditText(s, t) ==
    /\ StartRun(s, "edit_text")
    /\ user_text' = [user_text EXCEPT ![s] = t]
    /\ UNCHANGED <<uploaded_file, audio_value, failed_clip>>

ClickAnalyseText(s) ==
    /\ StartRun(s, "click_text")
    /\ UNCHANGED <<user_text, uploaded_file, audio_value, failed_clip>>

UploadImage(s, f) ==
    /\ StartRun(s, "upload")
    /\ uploaded_file' = [uploaded_file EXCEPT ![s] = f]
    /\ UNCHANGED <<user_text, audio_value, failed_clip>>

ClickAnalyseImage(s) ==
    /\ uploaded_file[s] # NoneBytes
    /\ StartRun(s, "click_image")
    /\ UNCHANGED <<user_text, uploaded_file, audio_value, failed_clip>>

RecordAudio(s, a) ==
    /\ StartRun(s, "record")
    /\ audio_value' = [audio_value EXCEPT ![s] = a]
    /\ failed_clip' = [failed_clip EXCEPT ![s] = NoneBytes]
    /\ UNCHANGED <<user_text, uploaded_file>>

\* try: result = call(...); render_risk_box(result)  except Exception: st.error
AssessAndRender(o) ==
    IF o.tag = "raise" THEN TabOut("error", NothingDrawn)
    ELSE LET box == render_risk_box(o.value)
         IN  IF box.status = "raised" THEN TabOut("error", NothingDrawn)
             ELSE TabOut("box", box)

\* the body of "with tab_text:": what it draws and how often it calls the
\* oracle, given the text area, the button and the oracle's answer
tab_text(text, analyze_btn, resp) ==
    IF ~analyze_btn THEN [out |-> NoOut, calls |-> 0]
    ELSE IF strip(text) = <<>>
      THEN [out |-> TabOut("please_enter", NothingDrawn), calls |-> 0]
    ELSE LET o == call_gemini_for_text(text, resp)
         IN  [out |-> AssessAndRender(o), calls |-> o.calls]

\* with tab_text:
TabText(s, R) ==
    /\ pc[s] = "tab_text"
    /\ pc' = [pc EXCEPT ![s] = "tab_image"]
    /\ \E resp \in R :
          LET r == tab_text(user_text[s], trigger[s] = "click_text", resp)
          IN  /\ text_out' = [text_out EXCEPT ![s] = r.out]
              /\ calls' = [calls EXCEPT ![s].text = @ + r.calls]
    /\ UNCHANGED <<trigger, user_text, uploaded_file, audio_value, session_state,
                   image_out, audio_out, result_src, failed_clip, own_state, fn_vars>>

\* with tab_image:
TabImage(s, R) ==
    /\ pc[s] = "tab_image"
    /\ pc' = [pc EXCEPT ![s] = "tab_audio"]
    /\ IF uploaded_file[s] = NoneBytes \/ trigger[s] # "click_image"
         THEN UNCHANGED <<image_out, calls>>
       ELSE \E resp \in R :
              LET o == call_gemini_for_image(uploaded_file[s], resp)
              IN  /\ image_out' = [image_out EXCEPT ![s] = AssessAndRender(o)]
                  /\ calls' = [calls EXCEPT ![s].image = @ + o.calls]
    /\ UNCHANGED <<trigger, user_text, uploaded_file, audio_value, session_state,
                   text_out, audio_out, result_src, failed_clip, own_state, fn_vars>>

\* if "last_audio_result" in st.session_state and st.session_state.last_audio_result:
\*     render_risk_box(...)   -- outside any try: an exception ends the run
\* else: st.info(...)
ShowAudio(st, error) ==
    IF st.last_audio_result.k = "set" /\ Truthy(st.last_audio_result.v)
    THEN LET box == render_risk_box(st.last_audio_result.v)
         IN  IF box.status = "raised" THEN AudioOut(error, "crash", NothingDrawn)
             ELSE AudioOut(error, "box", box)
    ELSE AudioOut(error, "info", NothingDrawn)

\* if "last_audio_size" not in st.session_state: st.session_state.last_audio_size = None
WithSizeKey(st) ==
    IF st.last_audio_size.k = "absent" THEN [st EXCEPT !.last_audio_size = NoneSize] ELSE st

\* with tab_audio: up to the call of call_gemini_for_audio
TabAudio(s) ==
    /\ pc[s] = "tab_audio"
    /\ IF audio_value[s] = NoneBytes
         THEN /\ pc' = [pc EXCEPT ![s] = "idle"]
              /\ UNCHANGED <<session_state, audio_out, own_state>>
       ELSE LET st == WithSizeKey(session_state[SessionKey(s)])
                current_size == Len(audio_value[s].b)
            IN  /\ session_state' = [session_state EXCEPT ![SessionKey(s)] = st]
                /\ own_state' = [own_state EXCEPT ![s] = WithSizeKey(@)]
                /\ IF st.last_audio_size # IntSize(current_size)
                     THEN /\ pc' = [pc EXCEPT ![s] = "audio_call"]
                          /\ UNCHANGED audio_out
                     ELSE /\ pc' = [pc EXCEPT ![s] = "idle"]
                          /\ audio_out' = [audio_out EXCEPT ![s] = ShowAudio(st, FALSE)]
    /\ UNCHANGED <<trigger, user_text, uploaded_file, audio_value, text_out, image_out,
                   calls, result_src, failed_clip, fn_vars>>

\* with tab_audio: from the return of call_gemini_for_audio to the end of the run
AudioReturn(s, resp) ==
    /\ pc[s] = "audio_call"
    /\ pc' = [pc EXCEPT ![s] = "idle"]
    /\ LET o == call_gemini_for_audio(audio_value[s], resp)
           current_size == Len(audio_value[s].b)
           stored ==
               [last_audio_size |-> IntSize(current_size),
                last_audio_result |-> SetResult(o.value)]
           st == IF o.tag = "return" THEN stored ELSE session_state[SessionKey(s)]
       IN  /\ session_state' = [session_state EXCEPT ![SessionKey(s)] = st]
           /\ own_state' = [own_state EXCEPT ![s] = IF o.tag = "return" THEN stored ELSE @]
           /\ result_src' = [result_src EXCEPT ![s] = IF o.tag = "return" THEN audio_value[s] ELSE @]
           /\ failed_clip' = [failed_clip EXCEPT ![s] = IF o.tag = "return" THEN NoneBytes ELSE audio_value[s]]
           /\ calls' = [calls EXCEPT ![s].audio = @ + o.calls]
           /\ audio_out' = [audio_out EXCEPT ![s] = ShowAudio(st, o.tag = "raise")]
    /\ UNCHANGED <<trigger, user_text, uploaded_file, audio_value, text_out, image_out,
                   fn_vars>>

\* ------------------------------------------------------------------------
\* SpecFn: the functions applied to inputs drawn from bounded sets
\* ------------------------------------------------------------------------
ApplyText(text, resp) ==
    /\ fn' = "call_gemini_for_text"
    /\ fn_text' = text
    /\ fn_resp' = resp
    /\ fn_out' = call_gemini_for_text(text, resp)
    /\ fn_bytes' = NoneBytes
    /\ fn_data' = PyNone
    /\ fn_box' = NothingDrawn
    /\ UNCHANGED <<fn_btn, fn_tab, ui_vars>>

ApplyImage(image_bytes, resp) ==
    /\ fn' = "call_gemini_for_image"
    /\ fn_bytes' = image_bytes
    /\ fn_resp' = resp
    /\ fn_out' = call_gemini_for_image(image_bytes, resp)
    /\ fn_text' = <<>>
    /\ fn_data' = PyNone
    /\ fn_box' = NothingDrawn
    /\ UNCHANGED <<fn_btn, fn_tab, ui_vars>>

ApplyAudio(audio_bytes, resp) ==
    /\ fn' = "call_gemini_for_audio"
    /\ fn_bytes' = audio_bytes
    /\ fn_resp' = resp
    /\ fn_out' = call_gemini_for_audio(audio_bytes, resp)
    /\ fn_text' = <<>>
    /\ fn_data' = PyNone
    /\ fn_box' = NothingDrawn
    /\ UNCHANGED <<fn_btn, fn_tab, ui_vars>>

ApplyRender(data) ==
    /\ fn' = "render_risk_box"
    /\ fn_data' = data
    /\ fn_box' = render_risk_box(data)
    /\ fn_text' = <<>>
    /\ fn_bytes' = NoneBytes
    /\ fn_resp' = OracleError
    /\ fn_out' = Return(PyNone, 0)
    /\ UNCHANGED <<fn_btn, fn_tab, ui_vars>>

ApplyTabText(text, analyze_btn, resp) ==
    /\ fn' = "tab_text"
    /\ fn_text' = text
    /\ fn_btn' = analyze_btn
    /\ fn_resp' = resp
    /\ fn_tab' = tab_text(text, analyze_btn, resp)
    /\ UNCHANGED <<fn_bytes, fn_data, fn_out, fn_box, ui_vars>>

\* one application per behaviour
CallText == fn = "none" /\ \E text \in Texts, resp \in Responses : ApplyText(text, resp)
CallImage == fn = "none" /\ \E b \in OptBytes, resp \in Responses : ApplyImage(b, resp)
CallAudio == fn = "none" /\ \E b \in OptBytes, resp \in Responses : ApplyAudio(b, resp)
CallRender == fn = "none" /\ \E data \in PyValues : ApplyRender(data)
CallTabText ==
    fn = "none" /\ \E text \in Texts, b \in BOOLEAN, resp \in Responses : ApplyTabText(text, b, resp)

FnNext == CallText \/ CallImage \/ CallAudio \/ CallRender \/ CallTabText

Init == FnInit /\ InitSessions({"s1"})

SpecFn == Init /\ [][FnNext]_vars

\* ------------------------------------------------------------------------
\* Spec: one session
\* ------------------------------------------------------------------------
Next ==
    \/ \E s \in Sessions, t \in SessionTexts : EditText(s, t)
    \/ \E s \in Sessions : ClickAnalyseText(s)
    \/ \E s \in Sessions, f \in Uploads : UploadImage(s, f)
    \/ \E s \in Sessions : ClickAnalyseImage(s)
    \/ \E s \in Sessions, a \in AudioInputs : RecordAudio(s, a)
    \/ \E s \in Sessions : TabText(s, SessionResponses)
    \/ \E s \in Sessions : TabImage(s, SessionResponses)
    \/ \E s \in Sessions : TabAudio(s)
    \/ \E s \in Sessions, resp \in SessionResponses : AudioReturn(s, resp)

Spec == Init /\ [][Next]_vars

\* ------------------------------------------------------------------------
\* SpecConc: two sessions of the voice tab, interleaved step by step
\* ------------------------------------------------------------------------
ConcResponses == {OracleError, JsonText(InRange), JsonText(OutOfRange)}

ConcInit == FnInit /\ InitSessions({"s1", "s2"})

ConcNext ==
    \/ \E s \in Sessions : ClickAnalyseText(s)
    \/ \E s \in Sessions, a \in AudioInputs : RecordAudio(s, a)
    \/ \E s \in Sessions : TabText(s, ConcResponses)
    \/ \E s \in Sessions : TabImage(s, ConcResponses)
    \/ \E s \in Sessions : TabAudio(s)
    \/ \E s \in Sessions, resp \in ConcResponses : AudioReturn(s, resp)

SpecConc == ConcInit /\ [][ConcNext]_vars

\* ========================================================================
\* Properties
\* ========================================================================
\* a text with no character other than whitespace (the empty text included)
Blank(t) == \A i \in 1..Len(t) : t[i] = " "
\* None, or no bytes at all
NoBytes(ob) == ob.k = "None" \/ Len(ob.b) = 0

AssessFns == {"call_gemini_for_text", "call_gemini_for_image", "call_gemini_for_audio"}

\* the assessment function applied last was given no input
FnInputEmpty ==
    \/ fn = "call_gemini_for_text" /\ Blank(fn_text)
    \/ fn \in {"call_gemini_for_image", "call_gemini_for_audio"} /\ NoBytes(fn_bytes)

\* the assessment function applied last was given some input
FnInputGiven == fn \in AssessFns /\ ~FnInputEmpty

\* C1: on empty input (a text that is empty or all whitespace, image or audio
\* bytes that are None or empty) the assessment function returns None and the
\* oracle is called zero times; the text tab calls the oracle zero times when
\* the text area is blank.
C1_EmptyInputNoCall ==
    /\ FnInputEmpty => fn_out = Return(PyNone, 0)
    /\ (fn = "tab_text" /\ Blank(fn_text)) => fn_tab.calls = 0

\* C1 witness: all-whitespace text, an oracle that would have answered with a
\* well-formed record, and yet None after zero calls
C1_Witness ==
    /\ fn = "call_gemini_for_text"
    /\ fn_text = <<" ", " ">>
    /\ fn_resp = JsonText(InRange)
    /\ fn_resp \in Responses
    /\ fn_out = Return(PyNone, 0)

\* a record as section 3 of the specification types it: the three required
\* keys present, the score within [0, 100], the level one of the four literals
WellFormedRecord(v) ==
    /\ v.kind = "dict"
    /\ v.f.risk_score.k = "num"
    /\ v.f.risk_score.h >= 2 * 0
    /\ v.f.risk_score.h <= 2 * 100
    /\ v.f.risk_level \in {"low", "medium", "high", "critical"}
    /\ v.f.suggested_rewrites.k = "list"

\* C3: for a non-empty text and any oracle response, call_gemini_for_text
\* returns a record with risk_score, risk_level and suggested_rewrites
\* present, the score in [0, 100] and the level one of low / medium / high /
\* critical, or it ends in an error.
C3_WellFormedOrError ==
    (fn = "call_gemini_for_text" /\ ~Blank(fn_text))
        => (fn_out.tag = "raise" \/ WellFormedRecord(fn_out.value))

\* C4: when the oracle's response text is not decodable as JSON,
\* call_gemini_for_text raises (it returns neither None nor any record) and
\* the text tab shows an error message, not a rendered assessment.
C4_MalformedIsError ==
    /\ (fn = "call_gemini_for_text" /\ ~Blank(fn_text) /\ fn_resp.kind \in {"not_json", "no_text"})
         => (fn_out.tag = "raise" /\ fn_out.calls = 1)
    /\ (fn = "tab_text" /\ fn_btn /\ ~Blank(fn_text) /\ fn_resp.kind \in {"not_json", "no_text"})
         => (fn_tab.out.kind = "error" /\ fn_tab.out.box.status = "none")

\* C4 witness: the text tab, button pressed, a text, a non-JSON answer, and
\* the error message on the page
C4_Witness ==
    /\ fn = "tab_text"
    /\ fn_btn
    /\ fn_text = <<"a">>
    /\ fn_resp = NotJson
    /\ fn_tab.calls = 1
    /\ fn_tab.out.kind = "error"

\* C5: an assessment function returns None only when it was given no input:
\* on a non-empty input it returns a value other than None or raises, whatever
\* the oracle does; and the text tab never shows the 'No analysis result
\* available.' placeholder after it called the oracle.
C5_NoneOnlyForNoInput ==
    /\ FnInputGiven => (fn_out.tag = "raise" \/ fn_out.value.kind # "None")
    /\ (fn = "tab_text" /\ fn_tab.calls > 0) => fn_tab.out.box.status # "warning"

\* a record whose fields, where present, have the types RISK_SCHEMA gives them
\* (the level a string), with an integer risk_score
IntegerScoreRecord(v) ==
    /\ v.kind = "dict"
    /\ v.f.risk_score.k = "num"
    /\ v.f.risk_score.h % 2 = 0
    /\ v.f.risk_level # NonString

ClampedInto(n, lo, hi) == IF n < lo THEN lo ELSE IF n > hi THEN hi ELSE n

\* C7: for a record with an integer risk_score, below 0 and above 100
\* included, render_risk_box gives the progress bar the score clamped into
\* [0, 100], the metric shows the score as it is, and the record is left as
\* it was.
C7_ProgressClamped ==
    (fn = "render_risk_box" /\ IntegerScoreRecord(fn_data))
        => /\ fn_box.status = "rendered"
           /\ fn_box.progress = ClampedInto(fn_data.f.risk_score.h \div 2, 0, 100)
           /\ fn_box.metric = fn_data.f.risk_score.h \div 2
           /\ fn_box.data_after = fn_data

\* C7 witness: a score of 150 is drawn as progress 100 next to a metric of 150
C7_Witness ==
    /\ fn = "render_risk_box"
    /\ fn_data.kind = "dict"
    /\ fn_data.f.risk_score = Num(300)
    /\ fn_box.progress = 100
    /\ fn_box.metric = 150

\* a successful response: the three required keys present with their types
SuccessfulRecord(v) ==
    /\ v.kind = "dict"
    /\ v.f.risk_score.k = "num"
    /\ v.f.risk_level \in LevelStrings
    /\ v.f.suggested_rewrites.k = "list"

Omitted(lf) == lf.k \in {"absent", "null"}

\* C8: for a successful response that omits categories and/or explanations,
\* or carries them as null, render_risk_box completes without an error, draws
\* no section for an omitted field, and still draws score, level and rewrites.
C8_OptionalDefaultEmpty ==
    (/\ fn = "render_risk_box"
     /\ SuccessfulRecord(fn_data)
     /\ Omitted(fn_data.f.categories) \/ Omitted(fn_data.f.explanations))
        => /\ fn_box.status = "rendered"
           /\ Omitted(fn_data.f.categories) => fn_box.categories = <<>>
           /\ Omitted(fn_data.f.explanations) => fn_box.explanations = <<>>
           /\ ~Omitted(fn_data.f.categories) => fn_box.categories = fn_data.f.categories.v
           /\ ~Omitted(fn_data.f.explanations) => fn_box.explanations = fn_data.f.explanations.v
           /\ fn_box.rewrites = fn_data.f.suggested_rewrites.v
           /\ fn_box.level # ""
           /\ fn_box.metric = RoundHalfEven(fn_data.f.risk_score.h)

\* C8 witness: categories missing, explanations null, and the box drawn with
\* its rewrite
C8_Witness ==
    /\ fn = "render_risk_box"
    /\ fn_data.kind = "dict"
    /\ fn_data.f.categories = AbsentList
    /\ fn_data.f.explanations = NullList
    /\ fn_data.f.suggested_rewrites = List(<<"kinder words">>)
    /\ fn_box.status = "rendered"
    /\ fn_box.rewrites = <<"kinder words">>
    /\ fn_box.level = "High"

\* ------------------------------------------------------------------------
\* Properties of the voice tab's session state (Spec, SpecConc)
\* ------------------------------------------------------------------------
\* the voice tab ended its run with a clip in the audio input
VoiceRunDone(s) == pc[s] = "idle" /\ audio_value[s] # NoneBytes

\* C2: the oracle is not called again for a clip whose answer is cached (the
\* same bytes submitted twice cost one call, and the second submission shows
\* the cached assessment), and the cached answer is reused only for that same
\* byte sequence: a run that made no call for its clip holds the answer to
\* exactly that clip.
C2_DedupBySameBytes ==
    \A s \in Sessions :
        /\ pc[s] = "audio_call" => result_src[s] # audio_value[s]
        /\ (VoiceRunDone(s) /\ calls[s].audio = 0) => result_src[s] = audio_value[s]
        /\ (VoiceRunDone(s) /\ calls[s].audio = 0 /\ audio_out[s].kind = "box")
             => audio_out[s].box.data_after = session_state[s].last_audio_result.v

\* C6: a failed oracle call is not retried: no audio call is issued for a
\* clip whose analysis failed until the user records again, the text and
\* image tabs call the oracle only in the run their button started, a run
\* makes at most one call per tab, and an error is on the page only in the
\* run whose call failed.
C6_NoRetryAfterFailure ==
    \A s \in Sessions :
        /\ pc[s] = "audio_call" => failed_clip[s] # audio_value[s]
        /\ calls[s].text > 0 => trigger[s] = "click_text"
        /\ calls[s].image > 0 => trigger[s] = "click_image"
        /\ calls[s].text <= 1 /\ calls[s].image <= 1 /\ calls[s].audio <= 1
        /\ audio_out[s].error => calls[s].audio = 1

\* C9: the dedup state is private to a session: what a session finds in its
\* session state is what its own runs last wrote; it skips the oracle call
\* only for a size its own run stored, and the assessment it draws is the one
\* its own run stored.
C9_SessionPrivate ==
    \A s \in Sessions :
        /\ session_state[s] = own_state[s]
        /\ (VoiceRunDone(s) /\ calls[s].audio = 0)
             => own_state[s].last_audio_size = IntSize(Len(audio_value[s].b))
        /\ audio_out[s].kind = "box"
             => audio_out[s].box.data_after = own_state[s].last_audio_result.v

\* C9 witness: session s1 holds the cached answer to a clip while session s2,
\* given the very same clip, is calling the oracle for it
C9_Witness ==
    /\ Sessions = {"s1", "s2"}
    /\ pc["s1"] = "idle"
    /\ audio_value["s1"] = SomeBytes(<<0>>)
    /\ session_state["s1"].last_audio_size = IntSize(1)
    /\ audio_out["s1"].kind = "box"
    /\ audio_value["s2"] = SomeBytes(<<0>>)
    /\ pc["s2"] = "audio_call"
    /\ session_state["s2"].last_audio_result = AbsentResult

\* C10: whenever the voice tab draws an assessment, it is the oracle's answer
\* for the clip now in the audio input; last_audio_size and last_audio_result
\* are set together, and only by a run that called the oracle.
C10_ShownResultIsCurrentClip ==
    \A s \in Sessions :
        /\ (pc[s] = "idle" /\ audio_out[s].kind = "box") => result_src[s] = audio_value[s]
        /\ (session_state[s].last_audio_size.k = "int")
             <=> (session_state[s].last_audio_result.k = "set")
        /\ session_state[s].last_audio_result.k = "set" => result_src[s] # NoneBytes

====
